---------------------------- MODULE Spec2Model ----------------------------
(***************************************************************************)
(* Model of LongSalmon/summarize_vehicle: the route model, the per-vehicle *)
(* fold, the aggregation engine and the staging pipeline of                *)
(* src/summarize/summarize.py over the store of                            *)
(* src/database/postgresql_client.py.                                      *)
(*                                                                         *)
(* Five specifications share the variables:                                *)
(*   SpecFold    the fold of _process_single_plate (lines 281-322) applied *)
(*               to a ledger row and drawn event lists;                    *)
(*   SpecRoute   the same fold applied to single events whose marks range  *)
(*               over the whole route;                                     *)
(*   SpecEngine  _update_vehicle_info_from_staging, its per-plate tasks    *)
(*               and the rest of process_vehicle_data after it, run        *)
(*               against a store that holds staged events;                 *)
(*   Spec        the three handlers of VehicleDataProcessor and the        *)
(*               statements of PostgreSQLClient on one connection, with    *)
(*               its commits and rollbacks;                                *)
(*   SpecStages  the statements of the staging pipeline, in any order, on  *)
(*               drawn trace files and registered vehicles.                *)
(*                                                                         *)
(* Representation.  A mark is a sequence of one-character strings, so that *)
(* the regular expression of mark_parse and the substring test of          *)
(* path_index are computed, not assumed.  mark_parse returns kilometres as *)
(* a float; the model counts it in thousandths of a kilometre (MarkUnits), *)
(* and mileage in millionths (MileageUnits), which keeps every value the   *)
(* code computes an integer.  Floating-point rounding is not modelled.     *)
(***************************************************************************)
EXTENDS Integers, Sequences, FiniteSets, Bags, TLC

(***************************************************************************)
(* Values.                                                                 *)
(***************************************************************************)
\* Python None for an Optional[str] mark (a NULL last_record).
NoneMark == <<"None">>

\* Python None for last_record_time (a NULL timestamp); timestamps are >= 1.
NoneTime == 0

\* ValueError raised by mark_parse / path_index, as a result value.
ValueError == -1

Abs(x) == IF x < 0 THEN -x ELSE x

Digits == {"0", "1", "2", "3", "4", "5", "6", "7", "8", "9"}

DigitVal(c) ==
  CASE c = "0" -> 0 [] c = "1" -> 1 [] c = "2" -> 2 [] c = "3" -> 3
    [] c = "4" -> 4 [] c = "5" -> 5 [] c = "6" -> 6 [] c = "7" -> 7
    [] c = "8" -> 8 [] c = "9" -> 9

\* int(): the value of a sequence of decimal digits.
RECURSIVE IntOf(_)
IntOf(ds) ==
  IF ds = <<>> THEN 0
  ELSE 10 * IntOf(SubSeq(ds, 1, Len(ds) - 1)) + DigitVal(ds[Len(ds)])

AllDigits(ds) == \A k \in 1..Len(ds) : ds[k] \in Digits

\* str.strip(): leading and trailing blanks removed.
RECURSIVE Strip(_)
Strip(s) ==
  IF s = <<>> THEN s
  ELSE IF s[1] = " " THEN Strip(Tail(s))
  ELSE IF s[Len(s)] = " " THEN Strip(SubSeq(s, 1, Len(s) - 1))
  ELSE s

\* Python's `a in b` on two strings: a occurs in b as a substring.
IsSubstring(a, b) ==
  \E k \in 0..(Len(b) - Len(a)) : SubSeq(b, k + 1, k + Len(a)) = a

(***************************************************************************)
(* Route model.                                                            *)
(***************************************************************************)
\* Thousandths of a kilometre per kilometre, and millionths per thousandth.
MarkUnits == 1000

MileageUnits == 1000

\* re.match(r"^K(\d+)\+(\d{3})$", mark.strip())
MarkMatches(mark) ==
  LET s == Strip(mark) IN
    /\ Len(s) >= 6
    /\ s[1] = "K"
    /\ s[Len(s) - 3] = "+"
    /\ AllDigits(SubSeq(s, 2, Len(s) - 4))
    /\ AllDigits(SubSeq(s, Len(s) - 2, Len(s)))

\* mark_parse: km_part + meter_part / 1000.0 kilometres, in MarkUnits.
mark_parse(mark) ==
  IF ~MarkMatches(mark) THEN ValueError
  ELSE LET s == Strip(mark)
           km_part == IntOf(SubSeq(s, 2, Len(s) - 4))
           meter_part == IntOf(SubSeq(s, Len(s) - 2, Len(s)))
       IN km_part * MarkUnits + meter_part

\* The mutant of mileage_diff: the signed difference.
mileage_diff_signed(mark1, mark2) ==
  LET index1 == mark_parse(mark1)
      index2 == mark_parse(mark2)
  IN IF index1 = ValueError \/ index2 = ValueError THEN ValueError
     ELSE ((index1 - index2) * MileageUnits) \div 1000

\* mileage_diff: abs(index1 - index2) / 1000.0, in MileageUnits per MarkUnit.
mileage_diff(mark1, mark2) ==
  LET index1 == mark_parse(mark1)
      index2 == mark_parse(mark2)
  IN IF index1 = ValueError \/ index2 = ValueError THEN ValueError
     ELSE (Abs(index1 - index2) * MileageUnits) \div 1000

Ch(a, b, c, d, e, f, g, h, i) == <<a, b, c, d, e, f, g, h, i>>

K0001_000 == Ch("K", "0", "0", "0", "1", "+", "0", "0", "0")
K0100_000 == Ch("K", "0", "1", "0", "0", "+", "0", "0", "0")
K0200_000 == Ch("K", "0", "2", "0", "0", "+", "0", "0", "0")
K0300_000 == Ch("K", "0", "3", "0", "0", "+", "0", "0", "0")
K0001_300 == Ch("K", "0", "0", "0", "1", "+", "3", "0", "0")
K0100_300 == Ch("K", "0", "1", "0", "0", "+", "3", "0", "0")

\* business.standard_path, the default of __init__.
standard_path ==
  << <<K0001_000, K0100_000, K0200_000, K0300_000>>,
     <<K0001_300, K0100_300, K0100_300, K0100_300>> >>

InboundOffset == 10000

\* The first position of `path` whose entry contains mark, 0 when none does.
FirstIn(mark, path) ==
  IF \E k \in 1..Len(path) : IsSubstring(mark, path[k])
  THEN CHOOSE k \in 1..Len(path) :
         /\ IsSubstring(mark, path[k])
         /\ \A j \in 1..(k - 1) : ~IsSubstring(mark, path[j])
  ELSE 0

\* path_index: outbound first, then inbound with the offset; ValueError for
\* None and for a mark found in neither.
path_index(mark) ==
  IF mark = NoneMark THEN ValueError
  ELSE IF FirstIn(mark, standard_path[1]) # 0
       THEN FirstIn(mark, standard_path[1]) - 1
  ELSE IF FirstIn(mark, standard_path[2]) # 0
       THEN FirstIn(mark, standard_path[2]) - 1 + InboundOffset
  ELSE ValueError

\* The mutant of is_continuous: adjacent positions in either direction of
\* travel count as continuous.
is_continuous_either_way(mark1, mark2) ==
  LET index1 == path_index(mark1)
      index2 == path_index(mark2)
  IN IF index1 = ValueError \/ index2 = ValueError THEN "raise"
     ELSE IF Abs(index1 - index2) = 1 THEN "yes" ELSE "no"

\* is_continuous: "raise" when either path_index raises, else index1-index2=1.
is_continuous(mark1, mark2) ==
  LET index1 == path_index(mark1)
      index2 == path_index(mark2)
  IN IF index1 = ValueError \/ index2 = ValueError THEN "raise"
     ELSE IF index1 - index2 = 1 THEN "yes" ELSE "no"


(***************************************************************************)
(* Bounds and input universes.                                             *)
(***************************************************************************)
\* pass_time values are 1..MaxTime.
MaxTime == 2

\* The longest event list handed to one fold.
MaxLen == 2

\* The number of folds run on the ledger row in SpecFold.
MaxFolds == 2

\* A token that occurs inside route entries without being one ("K01" is in
\* "K0100+000"), and a well-formed token that is in neither direction.
K01 == <<"K", "0", "1">>

K9_000 == <<"K", "9", "+", "0", "0", "0">>

\* The marks of drawn events (staged marks are never NULL): two consecutive
\* outbound entries, the partial token and the unknown one.
EventMarks == {K0001_000, K0100_000, K01, K9_000}

\* The marks of the events of SpecRoute: every entry of both directions of
\* standard_path, the partial token and the unknown one.
RouteMarks ==
  {standard_path[d][k] : d \in 1..2, k \in 1..4} \cup {K01, K9_000}

\* vehicle_info.bonus: 1.0 by default, set by the operator of the store.
Bonuses == {1, 2}

Events == [mark : EventMarks, pass_time : 1..MaxTime]

\* Event lists as the engine hands them over: ORDER BY plate, pass_time.
SortedByTime(recs) ==
  \A k \in 1..(Len(recs) - 1) : recs[k].pass_time <= recs[k + 1].pass_time

EventLists ==
  UNION {{recs \in [1..n -> Events] : SortedByTime(recs)} : n \in 0..MaxLen}

(***************************************************************************)
(* The fold of _process_single_plate.                                      *)
(***************************************************************************)
\* A vehicle_info row as init_db creates it and import_vehicle_info_from_csv
\* inserts it: the column defaults.
FreshRow(bonus) ==
  [last_record |-> NoneMark, last_record_time |-> NoneTime,
   mileage |-> 0, bonus |-> bonus, points |-> 0]

\* Lines 281-284: the locals loaded from the selected row.
LoadRow(r) ==
  [last_record |-> r.last_record, last_record_time |-> r.last_record_time,
   mileage |-> r.mileage, raised |-> FALSE]

\* The mutant of Skips: an event at last_record_time itself is skipped too.
SkipsOnEqual(loc, record) ==
  loc.last_record_time # NoneTime /\ record.pass_time <= loc.last_record_time

\* The mutant of Skips: no event is skipped.
SkipsNever(loc, record) == FALSE

\* Line 292: last_record_time is not None and pass_time < last_record_time.
Skips(loc, record) ==
  loc.last_record_time # NoneTime /\ record.pass_time < loc.last_record_time

\* The mutant of Credit: mileage credited whatever is_continuous answers.
CreditAlways(loc, record) ==
  IF record.mark # NoneMark /\ loc.last_record # NoneMark
  THEN LET c == is_continuous(record.mark, loc.last_record)
           diff == mileage_diff(record.mark, loc.last_record)
       IN IF c = "raise" \/ diff = ValueError THEN ValueError ELSE diff
  ELSE 0

\* Lines 300-306: what the event adds to mileage, ValueError when
\* is_continuous or mileage_diff raises.
Credit(loc, record) ==
  IF record.mark # NoneMark /\ loc.last_record # NoneMark
  THEN LET c == is_continuous(record.mark, loc.last_record) IN
         IF c = "raise" THEN ValueError
         ELSE IF c = "yes" THEN mileage_diff(record.mark, loc.last_record)
         ELSE 0
  ELSE 0

\* The mutant of Advance: position and time move only when mileage was
\* credited.
AdvanceIfCredited(loc, record, credit) ==
  IF credit > 0
  THEN [loc EXCEPT !.mileage = loc.mileage + credit,
                   !.last_record = record.mark,
                   !.last_record_time = record.pass_time]
  ELSE loc

\* The mutant of Advance: the distance is taken off the mileage.
AdvanceDebits(loc, record, credit) ==
  [loc EXCEPT !.mileage = loc.mileage - credit,
              !.last_record = record.mark,
              !.last_record_time = record.pass_time]

\* Lines 306-309: mileage += diff; last_record = mark; last_record_time =
\* pass_time.
Advance(loc, record, credit) ==
  [loc EXCEPT !.mileage = loc.mileage + credit,
              !.last_record = record.mark,
              !.last_record_time = record.pass_time]

\* The mutant of FoldRecord: an event whose mark raises is passed over and
\* the loop goes on.
FoldRecordSkipsBadMark(loc, record) ==
  IF Skips(loc, record) THEN loc
  ELSE LET credit == Credit(loc, record) IN
         IF credit = ValueError THEN loc
         ELSE Advance(loc, record, credit)

\* Lines 288-309: one iteration of the loop over records.
FoldRecord(loc, record) ==
  IF Skips(loc, record) THEN loc
  ELSE LET credit == Credit(loc, record) IN
         IF credit = ValueError THEN [loc EXCEPT !.raised = TRUE]
         ELSE Advance(loc, record, credit)

\* The mutant of PointsOf: points computed from the mileage of the selected
\* row instead of the folded mileage.
PointsOfStoredMileage(r, mileage) == r.mileage * r.bonus

\* Line 311: points = mileage * bonus.
PointsOf(r, mileage) == mileage * r.bonus

\* Lines 311-322: the update of the row with the four fields.
UpdatedRow(r, loc) ==
  [r EXCEPT !.last_record = loc.last_record,
            !.last_record_time = loc.last_record_time,
            !.mileage = loc.mileage,
            !.points = PointsOf(r, loc.mileage)]

\* The mutant of FoldFrom: the loop ends at the first stale event (break in
\* place of continue at line 297).
RECURSIVE FoldFromStopsAtStale(_, _, _)
FoldFromStopsAtStale(loc, recs, k) ==
  IF loc.raised \/ k > Len(recs) THEN loc
  ELSE IF Skips(loc, recs[k]) THEN loc
  ELSE FoldFromStopsAtStale(FoldRecord(loc, recs[k]), recs, k + 1)

\* Lines 281-322 as a function: the locals after the whole loop.
RECURSIVE FoldFrom(_, _, _)
FoldFrom(loc, recs, k) ==
  IF loc.raised \/ k > Len(recs) THEN loc
  ELSE FoldFrom(FoldRecord(loc, recs[k]), recs, k + 1)

(***************************************************************************)
(* The aggregation engine: inputs.                                         *)
(***************************************************************************)
\* The plates, in the order of ORDER BY plate.
PlateOrder == <<"P1", "P2">>

Plates == {PlateOrder[k] : k \in 1..Len(PlateOrder)}

PlateRank(p) == CHOOSE k \in 1..Len(PlateOrder) : PlateOrder[k] = p

\* The most rows the staged relation holds in SpecEngine.
MaxStaged == 2

\* os.cpu_count() is 1..MaxCpu.
MaxCpu == 2

\* business.max_threads_multiplier: 4 by default, 1 as a configured value.
DefaultMultiplier == 4

Multipliers == {1, DefaultMultiplier}

StagedMarks == {K0001_000, K0100_000, K9_000}

StagedRows == [plate : Plates, mark : StagedMarks, pass_time : 1..MaxTime]

\* The relation names the code uses: the literals of summarize.py and the
\* constants RAW_TABLE, FILTERED_TABLE, STAGING_TABLE of PostgreSQLClient.
RAW_TABLE == "raw_trace_data"

FILTERED_TABLE == "filtered_trace_data"

STAGING_TABLE == "staging_trace_data"

\* drop_table_if_exists: DROP TABLE IF EXISTS <name> on the relations a
\* connection sees.
drop_table_if_exists(t, name) == [n \in (DOMAIN t) \ {name} |-> t[n]]

\* The rows of create_and_populate_staging for one plate whose events are
\* numbered in the order `ordered`: ROW_NUMBER() OVER (PARTITION BY plate
\* ORDER BY pass_time) AS seq.
Numbered(ordered) ==
  {[plate |-> ordered[k].plate, mark |-> ordered[k].mark,
    pass_time |-> ordered[k].pass_time, seq |-> k] : k \in 1..Len(ordered)}

\* The names bound in the namespace of summarize.py when
\* _process_single_plate runs: its imports (lines 1-17) and its own
\* definitions.
ModuleGlobals ==
  {"List", "Dict", "Any", "Optional", "defaultdict", "Decimal",
   "PostgreSQLClient", "csv", "datetime", "re", "logging", "os",
   "contextmanager", "ThreadPoolExecutor", "as_completed", "threading",
   "sys", "config_manager", "log_config", "logger", "mark_parse",
   "mileage_diff", "VehicleDataProcessor"}

\* The mutant of Orderings: the rows of one plate in any order (no ORDER BY
\* pass_time).
OrderingsUnordered(rows) ==
  {f \in [1..Cardinality(rows) -> rows] :
     \A j, k \in 1..Cardinality(rows) : j # k => f[j] # f[k]}

\* The orders in which a SELECT ... ORDER BY plate, pass_time may return the
\* rows of one plate: ascending pass_time, rows of equal pass_time in any
\* order.
Orderings(rows) ==
  {f \in [1..Cardinality(rows) -> rows] :
     /\ \A j, k \in 1..Cardinality(rows) : j # k => f[j] # f[k]
     /\ SortedByTime(f)}

RowsOf(rows, p) == {r \in rows : r.plate = p}

\* Lines 354-358: the plates of the selected rows.
StagedPlates(rows) == {r.plate : r \in rows}

\* Line 364: min(len(plate_groups), os.cpu_count() * max_threads_multiplier).
MaxWorkers(n, cpu, mult) == IF n < cpu * mult THEN n ELSE cpu * mult

\* _process_single_plate (lines 252-336) as one step of its worker thread:
\* what it returns, the state its connection is left in, the row it wrote on
\* that connection and the commits it issued.  PostSQLClient (line 256) is
\* looked up in the module's namespace; the finally clause looks for
\* db_client on a threading.local() it has just created, which never has it,
\* so a connection that was opened is left open.
ProcessSinglePlate(plate, recs, vi) ==
  IF "PostSQLClient" \notin ModuleGlobals
  THEN [result |-> FALSE, conn |-> "none", wrote |-> FALSE,
        new_row |-> FreshRow(1), commits |-> 0]
  ELSE IF plate \notin DOMAIN vi
  THEN [result |-> TRUE, conn |-> "open", wrote |-> FALSE,
        new_row |-> FreshRow(1), commits |-> 0]
  ELSE LET l == FoldFrom(LoadRow(vi[plate]), recs, 1) IN
         IF l.raised
         THEN [result |-> FALSE, conn |-> "open", wrote |-> FALSE,
               new_row |-> vi[plate], commits |-> 0]
         ELSE [result |-> TRUE, conn |-> "open", wrote |-> TRUE,
               new_row |-> UpdatedRow(vi[plate], l), commits |-> 0]

(***************************************************************************)
(* The staging pipeline: the relations of one connection and the           *)
(* statements of PostgreSQLClient on them.  In the specification Spec a    *)
(* relation is a bag of rows (COPY and INSERT ... SELECT keep duplicates). *)
(***************************************************************************)
\* The pass_time texts of a CSV file: two spellings of the first minute and
\* one of the second.
T1 == <<"1">>

T01 == <<"0", "1">>

T2 == <<"2">>

RawTimes == {T1, T01, T2}

\* TO_TIMESTAMP(text, 'YYYY/MM/DD HH24:MI'): the minute the text denotes;
\* leading zeros of a field do not matter.
TO_TIMESTAMP(text) == IntOf(text)

\* A row of a trace CSV file (columns plate, pass_time, mark); an empty mark
\* field is loaded as NULL.
RawRow(plate, pass_time, mark) ==
  [plate |-> plate, pass_time |-> pass_time, mark |-> mark]

\* The rows the files are made of: an event of P1, the same event with the
\* minute spelled differently, another mark at the same minute, a row
\* without a mark, a later event, and an event of P2.
RawRows ==
  {RawRow("P1", T1, K0001_000), RawRow("P1", T01, K0001_000),
   RawRow("P1", T1, K0100_000), RawRow("P1", T1, NoneMark),
   RawRow("P1", T2, K0100_000), RawRow("P2", T1, K0001_000)}

\* The most rows in one CSV file.
MaxBatch == 1

\* The most rows the relations of the connection hold together.
MaxRows == 4

\* The bags of at most n rows of RawRows.
RECURSIVE BagsUpTo(_)
BagsUpTo(n) ==
  IF n = 0 THEN {EmptyBag}
  ELSE LET smaller == BagsUpTo(n - 1)
       IN  smaller \cup {SetToBag({r}) (+) b : r \in RawRows, b \in smaller}

\* The files: bags of at most MaxBatch rows.
Batches == BagsUpTo(MaxBatch)

\* The files of Spec: the empty one and one event of P1.
TxnFiles == {EmptyBag, SetToBag({RawRow("P1", T1, K0001_000)})}

\* The relation names the code addresses.
RelationNames ==
  {"raw_table", "filtered_table", "staging_table",
   RAW_TABLE, FILTERED_TABLE, STAGING_TABLE}

\* A connection in the middle of a transaction: the relations it sees, whether
\* every statement so far succeeded, and the statement that raised.
Sess(t, ok) ==
  [t |-> t, ok |-> ok, at |-> IF ok THEN "none" ELSE "failed transaction"]

\* The mutant of Stmt: a statement is executed although an earlier one of the
\* same body has raised.
StmtKeepsGoing(s, where, fails, result) ==
  IF fails THEN [s EXCEPT !.ok = FALSE, !.at = where]
  ELSE [s EXCEPT !.t = result]

\* One statement: skipped once an earlier one has raised; raises (and leaves
\* the transaction failed) when `fails`, else leaves the relations `result`.
Stmt(s, where, fails, result) ==
  IF ~s.ok THEN s
  ELSE IF fails THEN [s EXCEPT !.ok = FALSE, !.at = where]
  ELSE [s EXCEPT !.t = result]

\* CREATE TEMP TABLE IF NOT EXISTS <name>.
CreateIfNotExists(t, name) ==
  [n \in (DOMAIN t) \cup {name} |-> IF n \in DOMAIN t THEN t[n] ELSE EmptyBag]

\* The relations with relation `name` replaced by `rows`.
WithRelation(t, name, rows) ==
  [n \in (DOMAIN t) \cup {name} |-> IF n = name THEN rows ELSE t[n]]

DropTable(s, name) ==
  Stmt(s, "drop_table_if_exists", FALSE, drop_table_if_exists(s.t, name))

create_raw_table(s) ==
  Stmt(s, "create_raw_table", FALSE, CreateIfNotExists(s.t, RAW_TABLE))

create_filtered_table(s) ==
  Stmt(s, "create_filtered_table", FALSE,
       CreateIfNotExists(s.t, FILTERED_TABLE))

\* cursor.copy_from(file, table, ...): the rows of the file appended to the
\* relation; an error of the statement is re-raised as DatabaseError.
copy_from(s, file, table) ==
  Stmt(s, "copy_from", table \notin DOMAIN s.t,
       WithRelation(s.t, table, s.t[table] (+) file))

\* SELECT DISTINCT t0.plate, TO_TIMESTAMP(t0.pass_time, ...), t0.mark FROM
\* raw JOIN vehicle_info vi ON t0.plate = vi.plate.
FilterSelect(raw, vi) ==
  {[plate |-> r.plate, pass_time |-> TO_TIMESTAMP(r.pass_time),
    mark |-> r.mark] : r \in {q \in BagToSet(raw) : q.plate \in DOMAIN vi}}

\* INSERT INTO filtered ... : the selected rows are appended.
import_from_raw_to_filtered(s, vi) ==
  Stmt(s, "import_from_raw_to_filtered",
       RAW_TABLE \notin DOMAIN s.t \/ FILTERED_TABLE \notin DOMAIN s.t,
       WithRelation(s.t, FILTERED_TABLE,
                    s.t[FILTERED_TABLE]
                      (+) SetToBag(FilterSelect(s.t[RAW_TABLE], vi))))

\* SELECT DISTINCT plate, mark, pass_time FROM filtered WHERE mark IS NOT
\* NULL.
UniqueData(filtered) == {r \in BagToSet(filtered) : r.mark # NoneMark}

\* The relations CREATE TEMP TABLE staging AS SELECT ..., ROW_NUMBER() OVER
\* (PARTITION BY plate ORDER BY pass_time) AS seq can produce: rows of one
\* plate with the same pass_time are numbered in either order.
StagingsOf(rows) ==
  {UNION {Numbered(g[p]) : p \in StagedPlates(rows)} :
     g \in {h \in [StagedPlates(rows) ->
                     UNION {Orderings(RowsOf(rows, p)) : p \in Plates}] :
              \A p \in StagedPlates(rows) : h[p] \in Orderings(RowsOf(rows, p))}}

\* create_and_populate_staging: the staging relation is dropped, then
\* created from the filtered relation; `staged` is the numbering chosen.
create_and_populate_staging(s, staged) ==
  Stmt(DropTable(s, STAGING_TABLE), "create_and_populate_staging",
       FILTERED_TABLE \notin DOMAIN s.t,
       WithRelation(drop_table_if_exists(s.t, STAGING_TABLE), STAGING_TABLE,
                    SetToBag(staged)))

\* The numberings create_and_populate_staging chooses from.
StagingChoices(t) ==
  IF FILTERED_TABLE \in DOMAIN t
  THEN StagingsOf(UniqueData(t[FILTERED_TABLE]))
  ELSE {{}}

\* SELECT plate, mark, pass_time FROM staging.
LogRows(staging) ==
  {[plate |-> r.plate, mark |-> r.mark, pass_time |-> r.pass_time] :
     r \in BagToSet(staging)}

\* INSERT INTO vehicle_record (plate, mark, pass_time) SELECT ... FROM
\* staging; the rows of the staging relation are distinct.
import_from_staging_to_vehicle_record(s) ==
  Stmt(s, "import_from_staging_to_vehicle_record",
       STAGING_TABLE \notin DOMAIN s.t \/ "vehicle_record" \notin DOMAIN s.t,
       WithRelation(s.t, "vehicle_record",
                    s.t["vehicle_record"]
                      (+) SetToBag(LogRows(s.t[STAGING_TABLE]))))

\* The mutant of db_connection: the transaction is committed although the
\* body raised.
db_connection_commits(s, c) ==
  [t |-> s.t, committed |-> s.t, raised |-> ~s.ok]

\* db_connection (lines 126-143) at the end of its body: commit when the
\* body returned, rollback and re-raise when it raised.
db_connection(s, c) ==
  IF s.ok
  THEN [t |-> s.t, committed |-> s.t, raised |-> FALSE]
  ELSE [t |-> c, committed |-> c, raised |-> TRUE]

\* The most data rows in a vehicle CSV file.
MaxInfoRows == 2

\* The data rows of a vehicle CSV file: the plate and the number of fields.
InfoRows == [plate : Plates, fields : {3, 4}]

\* The vehicle CSV files: with or without a header line, then the data rows.
InfoFiles ==
  {[header |-> FALSE, rows |-> <<>>]} \cup
  [header : {TRUE},
   rows : UNION {[1..n -> InfoRows] : n \in 0..MaxInfoRows}]

\* Lines 158-176: the loop over the rows from row k on.  w is the state of
\* the transaction: the ledger and the relations as the connection sees
\* them, whether it has failed, and imported_count.  A row without four
\* fields is skipped; insert raises for a plate that is in the ledger
\* (UNIQUE) and in a failed transaction, rolls the whole transaction back
\* (postgresql_client.py 103-107) and the row is logged and passed over.
RECURSIVE InfoLoop(_, _, _, _)
InfoLoop(w, c, rows, k) ==
  IF k > Len(rows) THEN w
  ELSE IF rows[k].fields # 4 THEN InfoLoop(w, c, rows, k + 1)
  ELSE IF w.failed \/ rows[k].plate \in DOMAIN w.vi
  THEN InfoLoop([w EXCEPT !.vi = c.vi, !.rel = c.rel, !.failed = FALSE],
                c, rows, k + 1)
  ELSE InfoLoop(
         [w EXCEPT
            !.vi = [q \in (DOMAIN w.vi) \cup {rows[k].plate} |->
                      IF q \in DOMAIN w.vi THEN w.vi[q] ELSE FreshRow(1)],
            !.imported_count = w.imported_count + 1],
         c, rows, k + 1)

\* The body of import_vehicle_info_from_csv (lines 155-176): next(reader)
\* raises StopIteration on a file without a header line.
InfoBody(w, c, file) ==
  IF ~file.header
  THEN [s |-> [t |-> [vi |-> w.vi, rel |-> w.rel], ok |-> FALSE,
               at |-> "next(reader)"],
        imported_count |-> 0]
  ELSE LET v == InfoLoop(w, c, file.rows, 1) IN
         [s |-> [t |-> [vi |-> v.vi, rel |-> IF v.failed THEN c.rel ELSE v.rel],
                 ok |-> TRUE, at |-> "none"],
          imported_count |-> v.imported_count]

\* The body of import_vehicle_trace_from_csv (lines 190-213).
TraceBody(s, file, vi) ==
  LET s1 == DropTable(s, "raw_table")
      s2 == create_raw_table(s1)
      s3 == copy_from(s2, file, "raw_table")
      s4 == DropTable(s3, "filtered_table")
      s5 == create_filtered_table(s4)
      s6 == import_from_raw_to_filtered(s5, vi)
      s7 == Stmt(s6, "execute COUNT(*)", "raw_table" \notin DOMAIN s6.t, s6.t)
      s8 == DropTable(s7, "raw_table")
  IN [s |-> s8,
      imported_count |->
        IF s7.ok THEN BagCardinality(s6.t["raw_table"]) ELSE 0]

\* _update_vehicle_info_from_staging as a statement of the body of
\* process_vehicle_data: the select of line 347 raises when "staging_table"
\* does not exist, the pool raises for zero plates (line 370), and both are
\* re-raised (395-400); the tasks work on connections of their own and the
\* dispatcher counts their failures, so the relations of this connection
\* stay as they are.
UpdateFromStaging(s, cpu, mult) ==
  Stmt(s, "_update_vehicle_info_from_staging",
       \/ "staging_table" \notin DOMAIN s.t
       \/ MaxWorkers(Cardinality(StagedPlates(BagToSet(s.t["staging_table"]))),
                     cpu, mult) <= 0,
       s.t)

\* The body of process_vehicle_data (lines 225-239).
ReconcileBody(s, staged, cpu, mult) ==
  LET s1 == DropTable(s, "staging_table")
      s2 == create_and_populate_staging(s1, staged)
      s3 == import_from_staging_to_vehicle_record(s2)
      s4 == UpdateFromStaging(s3, cpu, mult)
      s5 == DropTable(s4, "filtered_table")
      s6 == DropTable(s5, "staging_table")
  IN [s |-> s6, before_engine |-> s3]

(***************************************************************************)
(* State.                                                                  *)
(***************************************************************************)
VARIABLES
  row,          \* SpecFold: the vehicle_info row the folds work on
  records,      \* the event list of the current (or last) fold
  idx,          \* the position of the loop in records
  loc,          \* the locals last_record, last_record_time, mileage
  fpc,          \* "idle" | "loop"
  fresult,      \* how the last fold ended: "none" | "ok" | "failed"
  nfolds,       \* folds started
  again,        \* the current fold replays the list of the fold before it
  vehicle_info, \* the committed vehicle_info table: plate -> row
  tables,       \* the relations the main connection sees: name -> rows
  committed,    \* the relations as of the main connection's last commit
  ret,          \* what the last handler returned: "none", "True", "False",
                \* "IOError", "count"
  aborted,      \* Spec: a statement of the open transaction has raised
  op,           \* Spec: the handler called last, "statement" for a call
                \* of the client
  at,           \* Spec: the statement at which it raised, or "none"
  imported_count, \* Spec: the count the last import returned
  cpu_count,    \* os.cpu_count()
  max_threads_multiplier,
  epc,          \* the engine: "idle" | "running" | "returned" | "raised"
  plate_groups, \* plate -> the records of the plate, in selected order
  max_workers,  \* the size of the thread pool
  ledger0,      \* vehicle_info as it was when the engine was entered
  tstate,       \* plate -> "queued" | "running" | "done"
  tout,         \* plate -> what _process_single_plate did (when done)
  counted,      \* the plates whose future the dispatcher has collected
  success_count,
  failure_count

foldvars == <<row, records, idx, loc, fpc, fresult, nfolds, again>>

storevars == <<vehicle_info, tables, committed, ret>>

sessvars == <<aborted, op, at, imported_count>>

enginevars ==
  <<cpu_count, max_threads_multiplier, epc, plate_groups, max_workers,
    ledger0, tstate, tout, counted, success_count, failure_count>>

vars == <<foldvars, storevars, enginevars, sessvars>>

\* The empty function: no relation, no task.
Nothing == [x \in {} |-> {}]

FoldIdle ==
  /\ row = FreshRow(1)
  /\ records = <<>>
  /\ idx = 1
  /\ loc = LoadRow(row)
  /\ fpc = "idle"
  /\ fresult = "none"
  /\ nfolds = 0
  /\ again = FALSE

EngineIdle ==
  /\ cpu_count = 1
  /\ max_threads_multiplier = DefaultMultiplier
  /\ epc = "idle"
  /\ plate_groups = Nothing
  /\ max_workers = 0
  /\ ledger0 = vehicle_info
  /\ tstate = Nothing
  /\ tout = Nothing
  /\ counted = {}
  /\ success_count = 0
  /\ failure_count = 0

StoreEmpty ==
  /\ vehicle_info = Nothing
  /\ tables = Nothing
  /\ committed = Nothing
  /\ ret = "none"

\* No operation has been called on the connection.
SessIdle ==
  /\ aborted = FALSE
  /\ op = "none"
  /\ at = "none"
  /\ imported_count = 0

(***************************************************************************)
(* SpecFold.                                                               *)
(***************************************************************************)
FoldInit ==
  /\ row \in {FreshRow(b) : b \in Bonuses}
  /\ records = <<>>
  /\ idx = 1
  /\ loc = LoadRow(row)
  /\ fpc = "idle"
  /\ fresult = "none"
  /\ nfolds = 0
  /\ again = FALSE
  /\ StoreEmpty
  /\ EngineIdle
  /\ SessIdle

\* _process_single_plate is entered with the records of one plate; the row
\* is selected and its fields loaded (lines 268-284).
FoldBegin ==
  /\ fpc = "idle"
  /\ nfolds < MaxFolds
  /\ \E recs \in EventLists :
       /\ records' = recs
       /\ again' = (fresult = "ok" /\ recs = records /\ recs # <<>>)
  /\ idx' = 1
  /\ loc' = LoadRow(row)
  /\ fpc' = "loop"
  /\ nfolds' = nfolds + 1
  /\ UNCHANGED <<row, fresult, storevars, enginevars, sessvars>>

\* One iteration of the loop; an exception leaves the loop for the except
\* clause (lines 325-330), which returns False without any update.
FoldStep ==
  /\ fpc = "loop"
  /\ idx <= Len(records)
  /\ loc' = FoldRecord(loc, records[idx])
  /\ IF loc'.raised
     THEN fpc' = "idle" /\ fresult' = "failed" /\ idx' = idx
     ELSE fpc' = "loop" /\ fresult' = fresult /\ idx' = idx + 1
  /\ UNCHANGED <<row, records, nfolds, again, storevars, enginevars, sessvars>>

\* After the loop: points and the one update keyed by the plate (lines
\* 311-324).
FoldUpdate ==
  /\ fpc = "loop"
  /\ idx > Len(records)
  /\ row' = UpdatedRow(row, loc)
  /\ fpc' = "idle"
  /\ fresult' = "ok"
  /\ UNCHANGED <<records, idx, loc, nfolds, again, storevars, enginevars, sessvars>>

FoldNext == FoldBegin \/ FoldStep \/ FoldUpdate

SpecFold == FoldInit /\ [][FoldNext]_vars

(***************************************************************************)
(* SpecRoute: the fold of single events whose marks range over the whole   *)
(* route, on a ledger row whose last_record is any of these marks.  The    *)
(* first event folded on a fresh row is stored without being looked up     *)
(* (line 300), so every such row is one the program writes.                *)
(***************************************************************************)
RouteInit ==
  /\ \E m \in RouteMarks, b \in Bonuses :
       row = [FreshRow(b) EXCEPT !.last_record = m, !.last_record_time = 1]
  /\ records = <<>>
  /\ idx = 1
  /\ loc = LoadRow(row)
  /\ fpc = "idle"
  /\ fresult = "none"
  /\ nfolds = 0
  /\ again = FALSE
  /\ StoreEmpty
  /\ EngineIdle
  /\ SessIdle

\* _process_single_plate is entered with one event of the plate.
RouteBegin ==
  /\ fpc = "idle"
  /\ nfolds < MaxFolds
  /\ \E m \in RouteMarks, t \in 1..MaxTime :
       /\ records' = <<[mark |-> m, pass_time |-> t]>>
       /\ again' = (fresult = "ok" /\ records' = records)
  /\ idx' = 1
  /\ loc' = LoadRow(row)
  /\ fpc' = "loop"
  /\ nfolds' = nfolds + 1
  /\ UNCHANGED <<row, fresult, storevars, enginevars, sessvars>>

RouteNext == RouteBegin \/ FoldStep \/ FoldUpdate

SpecRoute == RouteInit /\ [][RouteNext]_vars

(***************************************************************************)
(* SpecEngine: process_vehicle_data from the call of                       *)
(* _update_vehicle_info_from_staging (line 233) to its return, on a store  *)
(* in which the relation "staging_table" that line 347 selects from exists *)
(* and holds the staged events.  The relations that the stages before line *)
(* 233 fill, FILTERED_TABLE and STAGING_TABLE, hold the same events;       *)
(* STAGING_TABLE was created in the transaction that is still open, and    *)
(* line 230 has appended the staged events to vehicle_record (a bag) in    *)
(* that transaction.                                                       *)
(***************************************************************************)
\* vehicle_record as an earlier reconcile committed it.
OldLog == SetToBag({[plate |-> "P1", mark |-> K0100_000, pass_time |-> 1]})

\* The mutant of ReconcileFinish: True is returned without the commit.
ReconcileFinishWithoutCommit ==
  /\ epc = "returned"
  /\ ret = "none"
  /\ tables' = drop_table_if_exists(
                  drop_table_if_exists(tables, "filtered_table"),
                  "staging_table")
  /\ ret' = "True"
  /\ UNCHANGED <<sessvars, foldvars, vehicle_info, committed, enginevars>>

EngineInit ==
  /\ FoldIdle
  /\ \E regd \in {Plates, Plates \ {PlateOrder[Len(PlateOrder)]}},
        b \in Bonuses :
       vehicle_info = [p \in regd |-> FreshRow(b)]
  /\ \E rows \in SUBSET StagedRows :
       /\ Cardinality(rows) <= MaxStaged
       /\ committed =
            [n \in {"staging_table", FILTERED_TABLE, "vehicle_record"} |->
               IF n = "vehicle_record" THEN OldLog ELSE rows]
       /\ \E g \in [StagedPlates(rows) ->
                      UNION {Orderings(RowsOf(rows, p)) : p \in Plates}] :
            /\ \A p \in StagedPlates(rows) : g[p] \in Orderings(RowsOf(rows, p))
            /\ tables =
                 [n \in {"staging_table", FILTERED_TABLE, STAGING_TABLE,
                          "vehicle_record"} |->
                    IF n = STAGING_TABLE
                    THEN UNION {Numbered(g[p]) : p \in StagedPlates(rows)}
                    ELSE IF n = "vehicle_record"
                    THEN OldLog (+) SetToBag(rows)
                    ELSE rows]
  /\ ret = "none"
  /\ SessIdle
  /\ cpu_count \in 1..MaxCpu
  /\ max_threads_multiplier \in Multipliers
  /\ epc = "idle"
  /\ plate_groups = Nothing
  /\ max_workers = 0
  /\ ledger0 = vehicle_info
  /\ tstate = Nothing
  /\ tout = Nothing
  /\ counted = {}
  /\ success_count = 0
  /\ failure_count = 0

\* Lines 346-375: the select of "staging_table", the grouping by plate, the
\* pool and the submission of one task per plate.  A missing relation makes
\* the select raise, and ThreadPoolExecutor raises ValueError for
\* max_workers <= 0; both are re-raised by the except clause (395-400).
EngineDispatch ==
  /\ epc = "idle"
  /\ IF "staging_table" \notin DOMAIN tables
     THEN /\ epc' = "raised"
          /\ UNCHANGED <<plate_groups, max_workers, tstate>>
     ELSE LET rows == tables["staging_table"]
              ps == StagedPlates(rows)
              w == MaxWorkers(Cardinality(ps), cpu_count,
                              max_threads_multiplier)
          IN /\ \E g \in [ps -> UNION {Orderings(RowsOf(rows, p)) : p \in ps}] :
                  /\ \A p \in ps : g[p] \in Orderings(RowsOf(rows, p))
                  /\ plate_groups' = g
             /\ max_workers' = w
             /\ IF w <= 0
                THEN epc' = "raised" /\ tstate' = tstate
                ELSE epc' = "running" /\ tstate' = [p \in ps |-> "queued"]
  /\ UNCHANGED <<sessvars, foldvars, storevars, cpu_count, max_threads_multiplier,
                 ledger0, tout, counted, success_count, failure_count>>

Running == {p \in DOMAIN tstate : tstate[p] = "running"}

\* The mutant of TaskStart: a queued task starts although every thread of
\* the pool is busy.
TaskStartUnbounded(p) ==
  /\ epc = "running"
  /\ p \in DOMAIN tstate
  /\ tstate[p] = "queued"
  /\ tstate' = [tstate EXCEPT ![p] = "running"]
  /\ UNCHANGED <<sessvars, foldvars, storevars, cpu_count,
                 max_threads_multiplier, epc, plate_groups, max_workers,
                 ledger0, tout, counted, success_count, failure_count>>

\* A worker thread of the pool takes the oldest queued task; the pool has
\* max_workers threads.
TaskStart(p) ==
  /\ epc = "running"
  /\ p \in DOMAIN tstate
  /\ tstate[p] = "queued"
  /\ \A q \in DOMAIN tstate :
       PlateRank(q) < PlateRank(p) => tstate[q] # "queued"
  /\ Cardinality(Running) < max_workers
  /\ tstate' = [tstate EXCEPT ![p] = "running"]
  /\ UNCHANGED <<sessvars, foldvars, storevars, cpu_count, max_threads_multiplier, epc,
                 plate_groups, max_workers, ledger0, tout, counted,
                 success_count, failure_count>>

\* The task body, _process_single_plate(plate, records), run by its worker
\* thread.  The row it wrote reaches the committed vehicle_info only if the
\* task committed on its connection.
TaskRun(p) ==
  /\ epc = "running"
  /\ p \in DOMAIN tstate
  /\ tstate[p] = "running"
  /\ tstate' = [tstate EXCEPT ![p] = "done"]
  /\ LET out == ProcessSinglePlate(p, plate_groups[p], vehicle_info) IN
       /\ tout' = [q \in DOMAIN tout \cup {p} |->
                     IF q = p THEN out ELSE tout[q]]
       /\ vehicle_info' =
            IF out.wrote /\ out.commits > 0
            THEN [vehicle_info EXCEPT ![p] = out.new_row]
            ELSE vehicle_info
  /\ UNCHANGED <<sessvars, foldvars, tables, committed, ret, cpu_count,
                 max_threads_multiplier, epc, plate_groups, max_workers,
                 ledger0, counted, success_count, failure_count>>

\* The mutant of Collect: a task that returned False is not counted.
CollectSuccessesOnly(p) ==
  /\ epc = "running"
  /\ p \in DOMAIN tstate
  /\ tstate[p] = "done"
  /\ p \notin counted
  /\ counted' = counted \cup {p}
  /\ success_count' = IF tout[p].result THEN success_count + 1
                      ELSE success_count
  /\ UNCHANGED <<sessvars, foldvars, storevars, cpu_count,
                 max_threads_multiplier, epc, plate_groups, max_workers,
                 ledger0, tstate, tout, failure_count>>

\* Lines 378-391: as_completed hands over a finished future; its result is
\* counted.
Collect(p) ==
  /\ epc = "running"
  /\ p \in DOMAIN tstate
  /\ tstate[p] = "done"
  /\ p \notin counted
  /\ counted' = counted \cup {p}
  /\ IF tout[p].result
     THEN success_count' = success_count + 1
            /\ failure_count' = failure_count
     ELSE failure_count' = failure_count + 1
            /\ success_count' = success_count
  /\ UNCHANGED <<sessvars, foldvars, storevars, cpu_count, max_threads_multiplier, epc,
                 plate_groups, max_workers, ledger0, tstate, tout>>

\* Line 393: every future collected, the pool shut down, the method returns.
EngineReturn ==
  /\ epc = "running"
  /\ counted = DOMAIN tstate
  /\ epc' = "returned"
  /\ UNCHANGED <<sessvars, foldvars, storevars, cpu_count, max_threads_multiplier,
                 plate_groups, max_workers, ledger0, tstate, tout, counted,
                 success_count, failure_count>>

\* Lines 235-239 and the exit of db_connection (line 139): the two drops,
\* the commit, return True.
ReconcileFinish ==
  /\ epc = "returned"
  /\ ret = "none"
  /\ tables' = drop_table_if_exists(
                  drop_table_if_exists(tables, "filtered_table"),
                  "staging_table")
  /\ committed' = tables'
  /\ ret' = "True"
  /\ UNCHANGED <<sessvars, foldvars, vehicle_info, enginevars>>

\* The engine raised: db_connection rolls back and re-raises (lines
\* 140-143), process_vehicle_data logs and returns False (240-242).
ReconcileFail ==
  /\ epc = "raised"
  /\ ret = "none"
  /\ tables' = committed
  /\ ret' = "False"
  /\ UNCHANGED <<sessvars, foldvars, vehicle_info, committed, enginevars>>

EngineNext ==
  \/ EngineDispatch
  \/ \E p \in Plates : TaskStart(p)
  \/ \E p \in Plates : TaskRun(p)
  \/ \E p \in Plates : Collect(p)
  \/ EngineReturn
  \/ ReconcileFinish
  \/ ReconcileFail

SpecEngine == EngineInit /\ [][EngineNext]_vars

(***************************************************************************)
(* Spec: one connection of a VehicleDataProcessor.  The handlers           *)
(* import_vehicle_info_from_csv, import_vehicle_trace_from_csv and         *)
(* process_vehicle_data are called, and so are the statements of the       *)
(* public PostgreSQLClient (processor.postgresql_client) one by one.       *)
(***************************************************************************)
Init ==
  /\ vehicle_info = Nothing
  /\ tables = [n \in {"vehicle_record"} |-> EmptyBag]
  /\ committed = tables
  /\ ret = "none"
  /\ FoldIdle
  /\ EngineIdle
  /\ SessIdle

\* The number of rows in the relations the connection sees.
RECURSIVE RowCount(_, _)
RowCount(t, names) ==
  IF names = {} THEN 0
  ELSE LET n == CHOOSE x \in names : TRUE
       IN BagCardinality(t[n]) + RowCount(t, names \ {n})

\* A statement of the client called on its own: it works on what the
\* connection sees, and a failure leaves the transaction failed until the
\* next rollback.
Call(name, r) ==
  /\ RowCount(r.t, DOMAIN r.t) <= MaxRows
  /\ tables' = r.t
  /\ aborted' = ~r.ok
  /\ at' = r.at
  /\ op' = name
  /\ ret' = "none"
  /\ imported_count' = 0
  /\ UNCHANGED <<foldvars, enginevars, vehicle_info, committed>>

CallDropTable(name) ==
  Call("statement", DropTable(Sess(tables, ~aborted), name))

CallCreateRawTable ==
  Call("statement", create_raw_table(Sess(tables, ~aborted)))

CallCopyFrom(file, table) ==
  Call("statement", copy_from(Sess(tables, ~aborted), file, table))

CallCreateFilteredTable ==
  Call("statement", create_filtered_table(Sess(tables, ~aborted)))

CallImportFromRawToFiltered ==
  Call("statement",
       import_from_raw_to_filtered(Sess(tables, ~aborted), vehicle_info))

CallCreateAndPopulateStaging ==
  \E staged \in StagingChoices(tables) :
    Call("statement",
         create_and_populate_staging(Sess(tables, ~aborted), staged))

CallImportFromStagingToVehicleRecord ==
  Call("statement",
       import_from_staging_to_vehicle_record(Sess(tables, ~aborted)))

\* commit (lines 280-286); COMMIT in a failed transaction rolls it back.
Commit ==
  /\ IF aborted
     THEN tables' = committed /\ committed' = committed
     ELSE tables' = tables /\ committed' = tables
  /\ aborted' = FALSE
  /\ op' = "statement"
  /\ at' = "none"
  /\ ret' = "none"
  /\ imported_count' = 0
  /\ UNCHANGED <<foldvars, enginevars, vehicle_info>>

\* rollback (lines 288-294).
Rollback ==
  /\ tables' = committed
  /\ aborted' = FALSE
  /\ op' = "statement"
  /\ at' = "none"
  /\ ret' = "none"
  /\ imported_count' = 0
  /\ UNCHANGED <<foldvars, enginevars, vehicle_info, committed>>

\* import_vehicle_info_from_csv (lines 145-179).
ImportVehicleInfo ==
  \E file \in InfoFiles :
    LET c == [vi |-> vehicle_info, rel |-> committed]
        w == [vi |-> vehicle_info, rel |-> tables, failed |-> aborted,
              imported_count |-> 0]
        b == InfoBody(w, c, file)
        e == db_connection(b.s, c)
    IN /\ vehicle_info' = e.t.vi
       /\ tables' = e.t.rel
       /\ committed' = e.committed.rel
       /\ aborted' = FALSE
       /\ op' = "import_vehicle_info_from_csv"
       /\ at' = b.s.at
       /\ ret' = IF e.raised THEN "IOError" ELSE "count"
       /\ imported_count' = IF e.raised THEN 0 ELSE b.imported_count
       /\ UNCHANGED <<foldvars, enginevars>>

\* import_vehicle_trace_from_csv (lines 181-215).
IngestTrace ==
  \E file \in TxnFiles :
    LET b == TraceBody(Sess(tables, ~aborted), file, vehicle_info)
        e == db_connection(b.s, committed)
    IN /\ tables' = e.t
       /\ committed' = e.committed
       /\ aborted' = FALSE
       /\ op' = "import_vehicle_trace_from_csv"
       /\ at' = b.s.at
       /\ ret' = IF e.raised THEN "IOError" ELSE "count"
       /\ imported_count' = IF e.raised THEN 0 ELSE b.imported_count
       /\ UNCHANGED <<foldvars, enginevars, vehicle_info>>

\* process_vehicle_data (lines 217-242).
Reconcile ==
  \E staged \in StagingChoices(tables) :
    LET b == ReconcileBody(Sess(tables, ~aborted), staged, cpu_count,
                           max_threads_multiplier)
        e == db_connection(b.s, committed)
    IN /\ tables' = e.t
       /\ committed' = e.committed
       /\ aborted' = FALSE
       /\ op' = "process_vehicle_data"
       /\ at' = b.s.at
       /\ ret' = IF e.raised THEN "False" ELSE "True"
       /\ imported_count' = 0
       /\ UNCHANGED <<foldvars, enginevars, vehicle_info>>

\* The most rows the relations of the connection hold together in Spec.
MaxTxnRows == 2

\* The statement leaves at most MaxTxnRows rows.
TxnFits == RowCount(tables', DOMAIN tables') <= MaxTxnRows

Next ==
  \/ \E name \in RelationNames : CallDropTable(name)
  \/ CallCreateRawTable
  \/ \E file \in TxnFiles, table \in {"raw_table", RAW_TABLE} :
       CallCopyFrom(file, table) /\ TxnFits
  \/ CallCreateFilteredTable
  \/ CallImportFromRawToFiltered /\ TxnFits
  \/ CallCreateAndPopulateStaging /\ TxnFits
  \/ CallImportFromStagingToVehicleRecord /\ TxnFits
  \/ Commit
  \/ Rollback
  \/ ImportVehicleInfo
  \/ IngestTrace
  \/ Reconcile

Spec == Init /\ [][Next]_vars

(***************************************************************************)
(* SpecStages: the statements of the staging pipeline applied, in any      *)
(* order, to drawn files and a drawn set of registered vehicles, within    *)
(* one transaction.                                                        *)
(***************************************************************************)
StagesInit ==
  /\ \E regd \in {Plates, Plates \ {PlateOrder[Len(PlateOrder)]}} :
       vehicle_info = [p \in regd |-> FreshRow(1)]
  /\ tables = [n \in {"vehicle_record"} |-> EmptyBag]
  /\ committed = tables
  /\ ret = "none"
  /\ FoldIdle
  /\ EngineIdle
  /\ SessIdle

StagesNext ==
  \/ \E name \in RelationNames : CallDropTable(name)
  \/ CallCreateRawTable
  \/ \E file \in Batches : CallCopyFrom(file, RAW_TABLE)
  \/ \E file \in TxnFiles : CallCopyFrom(file, "raw_table")
  \/ CallCreateFilteredTable
  \/ CallImportFromRawToFiltered
  \/ CallCreateAndPopulateStaging
  \/ CallImportFromStagingToVehicleRecord
  \/ Rollback

SpecStages == StagesInit /\ [][StagesNext]_vars

(***************************************************************************)
(* Claims about the fold, checked under SpecFold.                          *)
(***************************************************************************)
\* The loop is about to process records[idx].
AtRecord == fpc = "loop" /\ idx <= Len(records)

\* The loop is over and the update is about to be issued.
AtUpdate == fpc = "loop" /\ idx > Len(records)

\* The time check of the fold lets the event at idx through.
PassesTimeCheck ==
  ~(loc.last_record_time # NoneTime
      /\ records[idx].pass_time < loc.last_record_time)

C3_StaleSkipped ==
  [][/\ (AtRecord /\ loc.last_record_time # NoneTime
           /\ records[idx].pass_time < loc.last_record_time)
          => (/\ loc' = loc
              /\ idx' = idx + 1
              /\ row' = row)
     /\ (AtRecord /\ records[idx].pass_time = loc.last_record_time)
          => (\/ loc'.raised
              \/ /\ loc'.last_record = records[idx].mark
                 /\ loc'.last_record_time = records[idx].pass_time)
     /\ (AtUpdate /\ row.last_record_time # NoneTime
           /\ \A k \in 1..Len(records) :
                 records[k].pass_time < row.last_record_time)
          => row' = row]_vars

\* A stale event has just been skipped: the event before idx is earlier than
\* the fold's lastRecordTime.
C3_Witness ==
  /\ fpc = "loop"
  /\ idx = 2
  /\ Len(records) = 1
  /\ records[1].pass_time < loc.last_record_time
  /\ records[1].mark # loc.last_record

\* The events of the current fold that pass the time check, given that the
\* list is in ascending pass_time order: those not earlier than the row's
\* lastRecordTime.
NotStale(k) ==
  row.last_record_time = NoneTime
    \/ records[k].pass_time >= row.last_record_time

LastNotStale ==
  CHOOSE k \in 1..Len(records) :
    NotStale(k) /\ \A j \in (k + 1)..Len(records) : ~NotStale(j)

C5_PointsFromMileage ==
  /\ [](row.points = row.mileage * row.bonus)
  /\ [][row' # row => AtUpdate]_vars

\* A fold has persisted credited mileage on a row with bonus 2.
C5_Witness ==
  /\ fresult = "ok"
  /\ fpc = "idle"
  /\ row.bonus = 2
  /\ row.mileage > 0
  /\ row.points = 2 * row.mileage

(***************************************************************************)
(* Claims about the engine, checked under SpecEngine.                      *)
(***************************************************************************)
\* Every mark of the plate's staged events is found by path_index.
AllResolve(p) ==
  \A k \in 1..Len(plate_groups[p]) :
    path_index(plate_groups[p][k].mark) # ValueError

\* The fold of the plate's staged events over the row the engine found.
FoldOf(p) == FoldFrom(LoadRow(ledger0[p]), plate_groups[p], 1)

\* The row the fold of the plate's staged events produces from the row the
\* engine found.
FoldedRow(p) ==
  IF FoldOf(p).raised THEN ledger0[p] ELSE UpdatedRow(ledger0[p], FoldOf(p))

\* C1: a vehicle with a ledger row and staged events whose marks all
\* resolve has its events replayed: its task ends as a success, having
\* written the four fields in one update, and the ledger row is the folded
\* row.
C1_ReconcileUpdatesLedger ==
  \A p \in DOMAIN tstate :
    (tstate[p] = "done" /\ p \in DOMAIN ledger0 /\ AllResolve(p))
      => /\ tout[p].result
         /\ tout[p].wrote
         /\ vehicle_info[p] = FoldedRow(p)

C7_FailureIsolated ==
  (epc \in {"returned", "raised"} /\ \E f \in DOMAIN tout : ~tout[f].result)
    => /\ epc = "returned"
       /\ success_count + failure_count = Cardinality(DOMAIN plate_groups)
       /\ \A f \in DOMAIN tout, q \in DOMAIN tout :
            (~tout[f].result /\ q # f /\ q \in DOMAIN ledger0
               /\ ~FoldOf(q).raised)
              => (tout[q].result /\ vehicle_info[q] = FoldedRow(q))

\* C8: a task that has ended had a store connection of its own, on which it
\* wrote its vehicle's row (when the vehicle has one and the fold does not
\* fail) and committed that write.
C8_TaskCommitsOwnUpdate ==
  \A p \in DOMAIN tout :
    /\ tout[p].conn # "none"
    /\ (p \in DOMAIN ledger0 /\ ~FoldOf(p).raised)
         => (tout[p].wrote /\ tout[p].commits = 1)

Held(name) == IF name \in DOMAIN tables THEN tables[name] ELSE {}

StagingHandlerEnds ==
  op' \in {"import_vehicle_trace_from_csv", "process_vehicle_data"}

\* The handler that has just ended raised (IOError) or reported failure.
HandlerFailed == ret' \in {"IOError", "False"}

C12_ScopeCommitsOrRollsBack ==
  [][op' \in {"import_vehicle_info_from_csv", "import_vehicle_trace_from_csv",
              "process_vehicle_data"} =>
       /\ HandlerFailed <=> at' # "none"
       /\ HandlerFailed => (/\ committed' = committed
                            /\ tables' = committed
                            /\ vehicle_info' = vehicle_info)
       /\ ~HandlerFailed => committed' = tables'
       /\ ~aborted']_vars

\* import_vehicle_info_from_csv has returned normally and the vehicle it
\* inserted is in the committed ledger, together with the relation that a
\* statement before the call had created in the same transaction.
C12_Witness ==
  /\ op = "import_vehicle_info_from_csv"
  /\ ret = "count"
  /\ imported_count = 1
  /\ DOMAIN vehicle_info = {"P1"}
  /\ RAW_TABLE \in DOMAIN committed
  /\ committed = tables


(***************************************************************************)
(* Claims about the order of the events of a fold, checked under SpecFold. *)
(***************************************************************************)
\* The ledger row _process_single_plate leaves when it is handed recs: the
\* updated row, or the row as it was when the fold raised (lines 311-330).
LedgerAfter(r, recs) ==
  LET final == FoldFrom(LoadRow(r), recs, 1)
  IN  IF final.raised THEN r ELSE UpdatedRow(r, final)

\* The orders in which the events of recs can be handed over.
OrdersOf(recs) ==
  {[k \in 1..Len(recs) |-> recs[f[k]]] : f \in Permutations(1..Len(recs))}

\* The events of recs that are not earlier than the ledger time t nor than
\* an event of recs before them, in the order of recs.
RECURSIVE NotOvertaken(_, _)
NotOvertaken(t, recs) ==
  IF recs = <<>> THEN <<>>
  ELSE IF t # NoneTime /\ Head(recs).pass_time < t
       THEN NotOvertaken(t, Tail(recs))
       ELSE <<Head(recs)>> \o NotOvertaken(Head(recs).pass_time, Tail(recs))

\* C13 as stated: from a fixed ledger row, the fold of a set of events in
\* any order ends in the same ledger row (lastRecord, lastRecordTime,
\* mileage, points) as the fold of the events sorted by timestamp.
C13_AnyOrderSameLedger ==
  (fpc = "loop" /\ idx = 1) =>
    \A perm \in OrdersOf(records) :
      LedgerAfter(row, perm) = LedgerAfter(row, records)

\* C13 amended: from a fixed ledger row, the fold of the events in any
\* order ends in the same ledger row as the fold, in that order, of only
\* those events that no earlier event of the order and not the ledger time
\* has overtaken; the events handed over out of timestamp order are lost.
C13_OrderKeepsNotOvertaken ==
  (fpc = "loop" /\ idx = 1) =>
    \A perm \in OrdersOf(records) :
      LedgerAfter(row, perm)
        = LedgerAfter(row, NotOvertaken(row.last_record_time, perm))

\* A fold is handed two events of which the later one, handed over first,
\* makes the fold lose the earlier one and with it the mileage between them.
C13_Witness ==
  /\ fpc = "loop"
  /\ idx = 1
  /\ Len(records) = 2
  /\ row.last_record = NoneMark
  /\ LET perm == <<records[2], records[1]>>
     IN  /\ NotOvertaken(row.last_record_time, perm) = <<records[2]>>
         /\ LedgerAfter(row, records).mileage > 0
         /\ LedgerAfter(row, perm).mileage = 0


(***************************************************************************)
(* Claims about the route model, checked under SpecFold at the records     *)
(* whose mark the fold compares with last_record.                          *)
(***************************************************************************)
\* The fold is about to compare the mark of records[idx] with last_record
\* (line 300 holds).
AtComparison ==
  /\ AtRecord
  /\ PassesTimeCheck
  /\ records[idx].mark # NoneMark
  /\ loc.last_record # NoneMark

\* C14: mileage_diff of two marks is the absolute difference of their
\* distances mark_parse (km + meters/1000), in kilometres; both sides are
\* counted here in millionths of a kilometre.
C14_DiffIsAbsoluteDistance ==
  (AtComparison /\ is_continuous(records[idx].mark, loc.last_record) = "yes"
                /\ mark_parse(records[idx].mark) # ValueError
                /\ mark_parse(loc.last_record) # ValueError)
    => mileage_diff(records[idx].mark, loc.last_record)
         = Abs(mark_parse(records[idx].mark) - mark_parse(loc.last_record))
             * MileageUnits


\* C15: path_index of a mark is the zero-based index of the first outbound
\* entry that is the mark, otherwise the inbound offset plus the index of
\* the first inbound entry that is the mark, and it raises ValueError for
\* every mark that is an entry of neither direction.
C15_PositionOfTokenOnly ==
  AtComparison =>
    LET mark == records[idx].mark
        IsEntry(path) == \E k \in 1..Len(path) : path[k] = mark
        First(path) == CHOOSE k \in 1..Len(path) :
                         /\ path[k] = mark
                         /\ \A j \in 1..(k - 1) : path[j] # mark
    IN  path_index(mark)
          = IF IsEntry(standard_path[1]) THEN First(standard_path[1]) - 1
            ELSE IF IsEntry(standard_path[2])
                 THEN InboundOffset + First(standard_path[2]) - 1
            ELSE ValueError


(***************************************************************************)
(* Claims about continuity, checked under SpecRoute.                       *)
(***************************************************************************)
\* The marks of the one direction of standard_path a mark resolves into:
\* 1 outbound, 2 inbound (lines 97-103).
DirectionOf(mark) == IF path_index(mark) < InboundOffset THEN 1 ELSE 2

\* C16: is_continuous(a, b) answers yes exactly when path_index(a) -
\* path_index(b) = 1; it never answers yes for both (a, b) and (b, a), and
\* never for a mark of the outbound and a mark of the inbound direction.
C16_ContinuityIsOneStepForward ==
  AtComparison =>
    LET a == records[idx].mark
        b == loc.last_record
    IN  (path_index(a) # ValueError /\ path_index(b) # ValueError) =>
          /\ (is_continuous(a, b) = "yes") <=> (path_index(a) - path_index(b) = 1)
          /\ ~(is_continuous(a, b) = "yes" /\ is_continuous(b, a) = "yes")
          /\ DirectionOf(a) # DirectionOf(b) => is_continuous(a, b) = "no"

\* The fold compares a mark with the entry one step behind it (yes one way,
\* no the other way).
C16_Witness ==
  /\ AtComparison
  /\ records[idx].mark = K0001_000
  /\ loc.last_record = K0100_000
  /\ is_continuous(K0001_000, K0100_000) = "no"
  /\ is_continuous(K0100_000, K0001_000) = "yes"


(***************************************************************************)
(* Claims about the errors of a task, checked under SpecEngine (C17) and   *)
(* under SpecFold (C18).                                                    *)
(***************************************************************************)
\* C17: the task of a vehicle that has no ledger row skips the vehicle's
\* events: it creates and modifies no row for the plate, it ends as a
\* success (not counted as a failure), and the engine goes on and returns.
C17_UnknownVehicleSkipped ==
  /\ \A p \in DOMAIN tout :
       p \notin DOMAIN ledger0
         => (tout[p].result /\ ~tout[p].wrote /\ p \notin DOMAIN vehicle_info)
  /\ (epc \in {"returned", "raised"}
        /\ \E p \in DOMAIN plate_groups : p \notin DOMAIN ledger0)
       => /\ epc = "returned"
          /\ failure_count
               <= Cardinality(DOMAIN plate_groups \cap DOMAIN ledger0)


\* The fold of the records at hand has just ended (by the update or by an
\* exception).
FoldEnds == fpc = "loop" /\ fpc' = "idle"

\* The mark resolves in the route and has the form mark_parse accepts.
GoodMark(mark) ==
  path_index(mark) # ValueError /\ mark_parse(mark) # ValueError

SequencingStage ==
  /\ STAGING_TABLE \in DOMAIN tables'
  /\ FILTERED_TABLE \in DOMAIN tables
  /\ STAGING_TABLE \in DOMAIN tables
       => tables'[STAGING_TABLE] # tables[STAGING_TABLE]

Sequenced ==
  {[plate |-> r.plate, mark |-> r.mark, pass_time |-> r.pass_time] :
     r \in tables[STAGING_TABLE]}

C26_TaskConnectionClosed ==
  /\ \A p \in DOMAIN tout : tout[p].conn = "closed"
  /\ ret # "none" => \A p \in DOMAIN tout : tout[p].conn # "open"

\* C29: when the staging relation holds no event, the engine completes: no
\* task is dispatched, no ledger row changes, and process_vehicle_data
\* returns True.
C29_NoEventsReconcileSucceeds ==
  (epc # "idle" /\ DOMAIN plate_groups = {})
    => /\ epc = "returned"
       /\ ret # "False"
       /\ DOMAIN tstate = {}
       /\ vehicle_info = ledger0

(***************************************************************************)
(* Claims about the ledger row over several folds, checked under SpecFold. *)
(***************************************************************************)
\* C24: over any sequence of folds from a row with mileage 0 and points 0,
\* the mileage and the points of the row stay >= 0 and the mileage never
\* decreases.
C24_MileageNeverDecreases ==
  [][/\ row'.mileage >= row.mileage
     /\ row'.mileage >= 0
     /\ row'.points >= 0
     /\ AtUpdate => loc.mileage >= row.mileage]_vars

\* The second fold of a row has added mileage to what the first one left.
C24_Witness ==
  /\ nfolds = 2
  /\ fpc = "idle"
  /\ fresult = "ok"
  /\ row.mileage > mileage_diff(K0100_000, K0001_000)
  /\ row.points = row.mileage * row.bonus


(***************************************************************************)
(* Claims about the handlers and the relations they address, checked       *)
(* under Spec.                                                             *)
(***************************************************************************)
\* C25: the count import_vehicle_info_from_csv returns is the number of
\* rows of the file that are in vehicle_info once the call has committed,
\* also when rows of the file are rejected between accepted ones.
C25_CountIsRowsImported ==
  [][(op' = "import_vehicle_info_from_csv" /\ ret' = "count")
       => imported_count'
            = Cardinality(DOMAIN vehicle_info' \ DOMAIN vehicle_info)]_vars


\* C27: every relation that ingest and reconcile drop, load into, count or
\* select from is the one the create step of its role has created, so no
\* statement of theirs raises for a relation that does not exist: an
\* ingest called in a sound transaction raises nowhere, and neither does a
\* reconcile called in a sound transaction on a filtered relation that
\* holds an event with a mark.
C27_AddressedRelationsExist ==
  [][~aborted =>
       /\ op' = "import_vehicle_trace_from_csv" => at' = "none"
       /\ (/\ op' = "process_vehicle_data"
           /\ FILTERED_TABLE \in DOMAIN tables
           /\ UniqueData(tables[FILTERED_TABLE]) # {}) => at' = "none"]_vars


(***************************************************************************)
(* Claims about the persisted position and time, checked under SpecFold.   *)
(***************************************************************************)
\* C28: after any sequence of folds the last_record of the ledger row is
\* NULL or a mark that path_index resolves, so that a later fold does not
\* raise on the last_record an earlier fold has stored.
C28_StoredPositionResolves ==
  /\ row.last_record # NoneMark => path_index(row.last_record) # ValueError
  /\ (AtComparison /\ idx = 1)
       => path_index(loc.last_record) # ValueError


=============================================================================
